---- MODULE Spec2Model ----
(***************************************************************************)
(* Frontier crawler of virtus-wcag (WebCrawler.crawl) with the URL         *)
(* utilities it relies on (canonicalizeUrl, sameHostname, sameBaseDomain). *)
(*                                                                         *)
(* A URL string is represented by its syntactic components:                *)
(*   ok     - whether `new URL(s)` accepts the string                      *)
(*   scheme - "http" / "https", possibly written in upper case             *)
(*   host   - the dot-separated host labels                                *)
(*   port   - the explicit port, 0 when the string names none              *)
(*   path   - the path, one character per element                          *)
(*   query  - the query keys in order of appearance                        *)
(*   hash   - the fragment, "" when absent                                 *)
(***************************************************************************)
EXTENDS Integers, Sequences, FiniteSets, TLC

VARIABLES
    pc,              \* position of crawl(): idle, entered, robots, sitemap, loop,
                     \* done (returned), thrown (left with an error)
    startUrl,        \* argument startUrl
    canonicalStart,  \* const canonicalStart
    cfg,             \* const cfg: Required<CrawlerOptions>
    discoveredUrls,  \* this.discoveredUrls : Set<string>
    visitedUrls,     \* this.visitedUrls : Set<string>
    failedUrls,      \* this.failedUrls : FailedUrl[]
    retryCount,      \* this.retryCount : Map<string, number>
    robotsDisallows, \* this.robotsDisallows : string[]
    frontier,        \* const frontier : Array<{url, depth, referrer}>
    elapsed,         \* Date.now() - startTime
    result,          \* the CrawlResult returned by crawl()
    attempts,        \* per URL, the outcomes of the extractLinks calls made on it
    dropped,         \* URLs of the frontier items the pop-time gate dropped
    seeds,           \* URLs that joined the frontier from the sitemap
    disallowedLinks, \* extracted links (canonical) that robots.txt disallows
    linksOf,         \* per page, the links (canonical) extractLinks returned
    robotsFetched,   \* how the robots.txt fetch of this crawl ended
    sitemapFetched,  \* how the sitemap.xml fetch of this crawl ended
    timedOutReady    \* URLs whose goto threw although the page was ready

(* waitForQuietPage *)
VARIABLES
    qpc,             \* position of waitForQuietPage: idle, navigated, loadState,
                     \* fonts, expose, observe, sleep, extraWait, returned, threw
    options,         \* const options
    clock,           \* Date.now()
    start,           \* const start
    deadline,        \* const deadline of waitForDomQuiet
    inflight,        \* let inflight
    lastMutation,    \* let lastMutation
    page,            \* the page: its listener counts and mutation hooks
    pageBefore,      \* the page as it was when waitForQuietPage was called
    wakeAt,          \* when the pending waitForTimeout may resolve
    domQuiet,        \* what waitForDomQuiet returned: none, true, false
    lastPoll,        \* the readings of the latest pass through the loop body
    sleeps,          \* waitForTimeout(100) calls of this call
    offCalls,        \* how often the finally block of this call has run
    sinceCall,       \* requests started since line 52 and still in flight
    swallowedIn      \* the phases of this call whose error ended in a catch block

(* canonicalizeUrl applied to a string, and to its own result *)
VARIABLES
    upc,             \* how often canonicalizeUrl has been applied: 0, 1, 2
    urlInput,        \* the string given
    urlOnce,         \* canonicalizeUrl(urlInput)
    urlTwice         \* canonicalizeUrl(canonicalizeUrl(urlInput))

crawlVars == <<pc, startUrl, canonicalStart, cfg, discoveredUrls, visitedUrls,
          failedUrls, retryCount, robotsDisallows, frontier, elapsed, result,
          attempts, dropped, seeds, disallowedLinks, linksOf, robotsFetched,
          sitemapFetched, timedOutReady>>

quietVars == <<qpc, options, clock, start, deadline, inflight, lastMutation, page,
               pageBefore, wakeAt, domQuiet, lastPoll, sleeps, offCalls, sinceCall,
               swallowedIn>>

urlVars == <<upc, urlInput, urlOnce, urlTwice>>

vars == <<crawlVars, quietVars, urlVars>>

----------------------------------------------------------------------------
(* Bounds of the exploration *)

MaxLinks == 2        \* longest link list one page yields
MaxSitemap == 1      \* longest sitemap considered
MaxFailingUrls == 1  \* how many URLs of one crawl fail to load at all
MaxPath == 4         \* longest path of a string given to canonicalizeUrl
MaxQuery == 2        \* most query keys of a string given to canonicalizeUrl

(* A budget no run of the model reaches *)
Unlimited == 1000000

MAX_RETRIES == 1

----------------------------------------------------------------------------
(* Strings *)

Url(ok, scheme, host, port, path, query, hash) ==
    [ok |-> ok, scheme |-> scheme, host |-> host, port |-> port,
     path |-> path, query |-> query, hash |-> hash]

ToLowerCase(s) ==
    CASE s = "EX" -> "ex"
      [] s = "HTTPS" -> "https"
      [] s = "HTTP" -> "http"
      [] s = "User-Agent" -> "user-agent"
      [] s = "Disallow" -> "disallow"
      [] s = "A11yCrawler" -> "a11ycrawler"
      [] OTHER -> s

LowerAll(parts) == [i \in 1..Len(parts) |-> ToLowerCase(parts[i])]

StartsWith(s, prefix) ==
    /\ Len(prefix) <= Len(s)
    /\ SubSeq(s, 1, Len(prefix)) = prefix

SeqToSet(s) == {s[i] : i \in 1..Len(s)}

(* Sequences without repetition over S, of length at most n *)
DistinctSeqs(S, n) ==
    UNION {{s \in [1..k -> S] : \A i, j \in 1..k : i # j => s[i] # s[j]} : k \in 0..n}

----------------------------------------------------------------------------
(* new URL(input): the parsed form of a string the parser accepts.  The    *)
(* parser lower-cases scheme and host and drops a default port.            *)

DefaultPort(scheme) == IF scheme = "http" THEN 80 ELSE 443

URLParse(input) ==
    LET scheme == ToLowerCase(input.scheme)
    IN  [input EXCEPT !.scheme = scheme,
                      !.host = LowerAll(input.host),
                      !.port = IF input.port = DefaultPort(scheme) THEN 0 ELSE input.port]

TRACKING_PARAMS ==
    {"utm_source", "utm_medium", "utm_campaign", "utm_term", "utm_content",
     "gclid", "fbclid", "mc_cid", "mc_eid", "ref", "referrer", "yclid", "dclid"}

(* Code-unit order of the query keys the model uses *)
KeyOrder == <<"a", "b", "gclid", "ref", "utm_source", "z">>

KeyRank(k) ==
    IF \E i \in 1..Len(KeyOrder) : KeyOrder[i] = k
    THEN CHOOSE i \in 1..Len(KeyOrder) : KeyOrder[i] = k
    ELSE Len(KeyOrder) + 1

RECURSIVE InsertKey(_, _)
InsertKey(k, sorted) ==
    IF sorted = <<>> THEN <<k>>
    ELSE IF KeyRank(k) < KeyRank(Head(sorted)) THEN <<k>> \o sorted
    ELSE <<Head(sorted)>> \o InsertKey(k, Tail(sorted))

(* URLSearchParams.sort(): stable, by key *)
RECURSIVE SortKeys(_)
SortKeys(q) ==
    IF q = <<>> THEN <<>>
    ELSE InsertKey(q[Len(q)], SortKeys(SubSeq(q, 1, Len(q) - 1)))

RemoveTracking(q) == SelectSeq(q, LAMBDA k : k \notin TRACKING_PARAMS)

(* pathname.replace(/\/+/, '/'): the first run of slashes becomes one slash *)
CollapseFirstSlashRun(p) ==
    IF \A i \in 1..Len(p) : p[i] # "/" THEN p
    ELSE LET first == CHOOSE i \in 1..Len(p) :
                          p[i] = "/" /\ \A j \in 1..(i - 1) : p[j] # "/"
             stop == CHOOSE j \in first..Len(p) :
                          /\ \A k \in first..j : p[k] = "/"
                          /\ (j = Len(p) \/ p[j + 1] # "/")
         IN  SubSeq(p, 1, first) \o SubSeq(p, stop + 1, Len(p))

StripTrailingSlash(p) ==
    IF Len(p) > 1 /\ p[Len(p)] = "/" THEN SubSeq(p, 1, Len(p) - 1) ELSE p

canonicalizeUrl(input) ==
    IF ~input.ok THEN input
    ELSE LET u == URLParse(input)
         IN  [u EXCEPT !.path = StripTrailingSlash(CollapseFirstSlashRun(u.path)),
                       !.hash = "",
                       !.query = SortKeys(RemoveTracking(u.query))]

LastN(parts, n) == SubSeq(parts, Len(parts) - n + 1, Len(parts))

getBaseDomain(hostname) ==
    LET parts == LowerAll(hostname)
        tlds == {"co", "com", "org", "gov", "ac", "net", "edu"}
    IN  IF Len(parts) <= 2 THEN parts
        ELSE IF parts[Len(parts) - 1] \in tlds /\ Len(parts) >= 3
             THEN LastN(parts, 3)
             ELSE LastN(parts, 2)

(* sameBaseDomain comparing the strings when one of them does not parse *)
sameBaseDomainByText(a, b) ==
    IF ~a.ok \/ ~b.ok THEN a = b
    ELSE getBaseDomain(URLParse(a).host) = getBaseDomain(URLParse(b).host)

sameBaseDomain(a, b) ==
    IF ~a.ok \/ ~b.ok THEN FALSE
    ELSE getBaseDomain(URLParse(a).host) = getBaseDomain(URLParse(b).host)

sameHostname(a, b) ==
    IF ~a.ok \/ ~b.ok THEN FALSE
    ELSE LowerAll(URLParse(a).host) = LowerAll(URLParse(b).host)

----------------------------------------------------------------------------
(* The strings the environment supplies *)

Root == Url(TRUE, "https", <<"ex", "com">>, 0, <<"/">>, <<>>, "")
RawA == Url(TRUE, "HTTPS", <<"EX", "com">>, 443, <<"/", "a", "/">>, <<"utm_source">>, "f")
Private == Url(TRUE, "https", <<"ex", "com">>, 0, <<"/", "p", "/", "x">>, <<>>, "")
Sub == Url(TRUE, "https", <<"sub", "ex", "com">>, 0, <<"/", "b">>, <<>>, "")
Other == Url(TRUE, "https", <<"other", "org">>, 0, <<"/">>, <<>>, "")
Garbage == Url(FALSE, "", <<>>, 0, <<"n", "o">>, <<>>, "")

StartUrls == {Root, Garbage}
LinkPool == {RawA, Private, Sub}
SitemapPool == {RawA, Private, Other}

(* The budgets crawl() is called with *)
PageBudgets == {0, 1, Unlimited}
DepthBudgets == {0, 1}
TimeBudgets == {1, Unlimited}

RobotsLine(key, value) == [key |-> key, value |-> value]

RobotsTexts ==
    { <<RobotsLine("User-Agent", <<"*">>), RobotsLine("Disallow", <<"/", "p">>)>>,
      <<RobotsLine("user-agent", <<"googlebot">>), RobotsLine("disallow", <<"/">>),
        RobotsLine("User-Agent", <<"A11yCrawler">>), RobotsLine("Disallow", <<>>),
        RobotsLine("Allow", <<"/", "p">>)>> }

(* The answer of fetch(): it throws, or gives a response with ok false or true *)
Fetched(outcome, body) == [outcome |-> outcome, body |-> body]

RobotsFetches ==
    {Fetched("throws", <<>>), Fetched("notOk", <<>>)}
        \cup {Fetched("ok", text) : text \in RobotsTexts}

SitemapFetches ==
    {Fetched("throws", <<>>), Fetched("notOk", <<>>)}
        \cup {Fetched("ok", locs) : locs \in DistinctSeqs(SitemapPool, MaxSitemap)}

(* What the anchors of a page give extractLinks, in document order *)
LinkLists == DistinctSeqs(LinkPool, MaxLinks)

(* What page.goto gives extractLinks: it throws, or gives a response *)
(* `ready`: document.readyState is interactive or complete, or the page has *)
(* a title, when goto has ended                                            *)
Navigation(thrown, status, ready) ==
    [thrown |-> thrown, status |-> status, ready |-> ready]

Statuses == {200, 400, 404}

Navigations ==
    {Navigation("Timeout", 0, ready) : ready \in BOOLEAN}
        \cup {Navigation("", status, TRUE) : status \in Statuses}

----------------------------------------------------------------------------
(* canonicalizeUrl as a function of arbitrary strings *)

(* Sequences over S of length at most n *)
SeqsUpTo(S, n) == UNION {[1..k -> S] : k \in 0..n}

(* The strings given: URLs the parser accepts (their path starts with a    *)
(* slash, as every pathname does), and one it rejects                      *)
UrlInputs ==
    {Url(TRUE, scheme, host, port, <<"/">> \o path, query, hash) :
        scheme \in {"https", "HTTP"},
        host \in {<<"EX", "com">>},
        port \in {0, 80, 443},
        path \in SeqsUpTo({"/", "a"}, MaxPath - 1),
        query \in SeqsUpTo({"b", "a", "utm_source"}, MaxQuery),
        hash \in {"", "f"}}
      \cup {Garbage}

UrlIdle ==
    /\ upc = 0
    /\ urlInput = Garbage
    /\ urlOnce = Garbage
    /\ urlTwice = Garbage

(* canonicalizeUrl is given any of the strings *)
UrlGiven ==
    /\ upc = 0
    /\ urlInput \in UrlInputs
    /\ urlOnce = urlInput
    /\ urlTwice = urlInput

(* canonicalizeUrl(urlInput) *)
ApplyOnce ==
    /\ upc = 0
    /\ urlOnce' = canonicalizeUrl(urlInput)
    /\ urlTwice' = urlOnce'
    /\ upc' = 1
    /\ UNCHANGED <<urlInput, crawlVars, quietVars>>

(* canonicalizeUrl(canonicalizeUrl(urlInput)) *)
ApplyTwice ==
    /\ upc = 1
    /\ urlTwice' = canonicalizeUrl(urlOnce)
    /\ upc' = 2
    /\ UNCHANGED <<urlInput, urlOnce, crawlVars, quietVars>>

UrlNext == ApplyOnce \/ ApplyTwice

----------------------------------------------------------------------------
(* waitForQuietPage (utils/stability).  Time is counted in units of the    *)
(* poll interval of waitForDomQuiet (100 ms); each call gets a freshly     *)
(* navigated page and the clock is read relative to the call.              *)

MaxTime == 5         \* the latest clock reading of one call
MaxRequests == 2     \* the most requests in flight at once
MaxLate == 10        \* the latest clock reading of a call whose timers fire on time

(* page.waitForTimeout(100), line 118 *)
PollInterval == 1

(* Math.min(8000, timeoutMs), line 59 *)
LoadStateCap == 80

(* The options waitForQuietPage is called with *)
TimeoutOptions == {0, 1, 4}
InflightOptions == {0, 1}
QuietWindowOptions == {0, 2}
ExtraWaitOptions == {0, 1}

QuietPageOptions ==
    [timeoutMs : TimeoutOptions, maxInflightRequests : InflightOptions,
     domQuietWindowMs : QuietWindowOptions, extraWaitMs : ExtraWaitOptions]

(* The listeners and hooks a page carries *)
Page(request, requestfinished, requestfailed, exposed, observers) ==
    [request |-> request, requestfinished |-> requestfinished,
     requestfailed |-> requestfailed, exposed |-> exposed, observers |-> observers]

NoPoll == [at |-> 0, inflight |-> 0, domQuietFor |-> 0]

Min(a, b) == IF a < b THEN a ELSE b
Max(a, b) == IF a > b THEN a ELSE b

(* Lines 52-54 *)
AddListeners(p) ==
    [p EXCEPT !.request = @ + 1, !.requestfinished = @ + 1, !.requestfailed = @ + 1]

(* Lines 85-87 *)
RemoveListeners(p) ==
    [p EXCEPT !.request = @ - 1, !.requestfinished = @ - 1, !.requestfailed = @ - 1]

(* AfterFinally leaving the listeners where they are *)
AfterFinallySkipped(p) == p

(* Lines 83-88: the finally block, which every way out of the try passes *)
AfterFinally(p) == RemoveListeners(p)

(* IsQuiet asking for either condition *)
IsQuietEither(inflightNow, domQuietFor, opts) ==
    \/ inflightNow <= opts.maxInflightRequests
    \/ domQuietFor >= opts.domQuietWindowMs

(* Lines 113-115 *)
IsQuiet(inflightNow, domQuietFor, opts) ==
    /\ inflightNow <= opts.maxInflightRequests
    /\ domQuietFor >= opts.domQuietWindowMs

(* InnerCatch with the fonts wait left outside a try block *)
InnerCatchFirstOnly == {"loadState"}

(* Lines 58-60 and 63-71: the phases wrapped in a try block of their own, *)
(* whose catch block is empty                                              *)
InnerCatch == {"loadState", "fonts"}

(* Lines 112-120: what the loop of waitForDomQuiet does when it is reached *)
(* at clock reading t: return true, sleep, or return false                 *)
PollOutcome(t, until, inflightNow, mutatedAt, opts) ==
    IF t < until
    THEN IF IsQuiet(inflightNow, t - mutatedAt, opts) THEN "true" ELSE "sleep"
    ELSE "false"

----------------------------------------------------------------------------
(* WebCrawler *)

EmptyMap == [u \in {} |-> 0]
NoResult == [discoveredUrls |-> <<>>, unvisitedUrls |-> <<>>, failedUrls |-> <<>>]
NoCfg == [includeSubdomains |-> TRUE, maxPages |-> 0, maxDepth |-> 0,
          maxTimeMs |-> 0, respectRobotsTxt |-> TRUE]

Item(url, depth, referrer) == [url |-> url, depth |-> depth, referrer |-> referrer]

(* The clock readings one awaited step may move to.  crawl() reads the     *)
(* clock only to compare it with cfg.maxTimeMs, so the clock counts in     *)
(* units of the finite budget (the budget may run out at any await) and    *)
(* is not advanced past the budget, nor at all when the budget is          *)
(* Unlimited.                                                              *)
Later(t) == IF t < cfg.maxTimeMs /\ cfg.maxTimeMs # Unlimited
            THEN {t, t + 1} ELSE {t}

(* The error `new URL(input)` throws, "" when it accepts the string *)
ParseError(input) == IF input.ok THEN "" ELSE "Invalid URL"

(* The error that ends loadRobots or fetchSitemapUrls inside its try block *)
FetchError(fromUrl, fetched) ==
    IF ParseError(fromUrl) # "" THEN ParseError(fromUrl)
    ELSE IF fetched.outcome = "throws" THEN "fetch failed"
    ELSE ""

(* Swallowed letting the error leave the handler *)
Rethrown(error) == error

(* A catch block that does not throw: the error ends in the handler *)
Swallowed(error) == ""

(* loadRobots: the rules of the groups for * and for the crawler's own token *)
RECURSIVE ParseRobots(_, _, _)
ParseRobots(lines, applies, disallows) ==
    IF lines = <<>> THEN disallows
    ELSE LET line == Head(lines)
         IN  IF ToLowerCase(line.key) = "user-agent"
             THEN ParseRobots(Tail(lines),
                              line.value = <<"*">>
                                  \/ LowerAll(line.value) = <<"a11ycrawler">>,
                              disallows)
             ELSE IF applies /\ ToLowerCase(line.key) = "disallow"
             THEN ParseRobots(Tail(lines), applies, Append(disallows, line.value))
             ELSE ParseRobots(Tail(lines), applies, disallows)

loadRobots(fromUrl, fetched, current) ==
    IF ~fromUrl.ok \/ fetched.outcome # "ok" THEN current
    ELSE SelectSeq(ParseRobots(fetched.body, FALSE, <<>>), LAMBDA rule : rule # <<>>)

isDisallowedByRobots(targetUrl) ==
    IF Len(robotsDisallows) = 0 THEN FALSE
    ELSE IF ~targetUrl.ok THEN FALSE
    ELSE \E i \in 1..Len(robotsDisallows) :
            /\ robotsDisallows[i] # <<>>
            /\ StartsWith(URLParse(targetUrl).path, robotsDisallows[i])

fetchSitemapUrls(fromUrl, fetched) ==
    IF ~fromUrl.ok \/ fetched.outcome # "ok" THEN <<>> ELSE fetched.body

InScope(url) ==
    IF cfg.includeSubdomains THEN sameBaseDomain(canonicalStart, url)
    ELSE sameHostname(canonicalStart, url)

(* PassesGate without the scope test of lines 100-101 *)
PassesGateNoScope(item) ==
    /\ ~(item.depth > cfg.maxDepth)
    /\ ~(cfg.respectRobotsTxt /\ isDisallowedByRobots(item.url))

(* PassesGate without the depth test of line 102 *)
PassesGateNoDepth(item) ==
    /\ InScope(item.url)
    /\ ~(cfg.respectRobotsTxt /\ isDisallowedByRobots(item.url))

(* Lines 100-103: the gate a popped item passes before it is attempted *)
PassesGate(item) ==
    /\ InScope(item.url)
    /\ ~(item.depth > cfg.maxDepth)
    /\ ~(cfg.respectRobotsTxt /\ isDisallowedByRobots(item.url))

(* LinkAccepted without the scope test of line 125 *)
LinkAcceptedNoScope(cu) == ~(cfg.respectRobotsTxt /\ isDisallowedByRobots(cu))

(* LinkAccepted without the robots test of line 126 *)
LinkAcceptedNoRobots(cu) == InScope(cu)

(* Lines 125-129: the gate an extracted link passes before it is enqueued *)
LinkAccepted(cu) ==
    /\ InScope(cu)
    /\ ~(cfg.respectRobotsTxt /\ isDisallowedByRobots(cu))

(* Lines 82-88: sitemap URLs not yet discovered join the frontier at depth 1 *)
RECURSIVE SeedFrontier(_, _, _)
SeedFrontier(urls, disc, fr) ==
    IF urls = <<>> THEN [disc |-> disc, fr |-> fr]
    ELSE LET cu == canonicalizeUrl(Head(urls))
         IN  IF cu \notin disc
             THEN SeedFrontier(Tail(urls), disc \cup {cu},
                               Append(fr, Item(cu, 1, <<canonicalStart>>)))
             ELSE SeedFrontier(Tail(urls), disc, fr)

(* EnqueueLinks with line 120 testing visitedUrls only *)
RECURSIVE EnqueueLinksVisitedOnly(_, _, _, _, _)
EnqueueLinksVisitedOnly(links, disc, fr, depth, referrer) ==
    IF links = <<>> THEN [disc |-> disc, fr |-> fr]
    ELSE LET cu == canonicalizeUrl(Head(links))
         IN  IF cu \in visitedUrls \cup {referrer} \/ ~LinkAccepted(cu)
             THEN EnqueueLinksVisitedOnly(Tail(links), disc, fr, depth, referrer)
             ELSE EnqueueLinksVisitedOnly(Tail(links), disc \cup {cu},
                                          Append(fr, Item(cu, depth + 1, <<referrer>>)),
                                          depth, referrer)

(* Lines 118-134: the links of a page that were not seen before join the frontier *)
RECURSIVE EnqueueLinks(_, _, _, _, _)
EnqueueLinks(links, disc, fr, depth, referrer) ==
    IF links = <<>> THEN [disc |-> disc, fr |-> fr]
    ELSE LET cu == canonicalizeUrl(Head(links))
         IN  IF cu \in visitedUrls \cup {referrer} \/ cu \in disc
             THEN EnqueueLinks(Tail(links), disc, fr, depth, referrer)
             ELSE IF ~LinkAccepted(cu)
             THEN EnqueueLinks(Tail(links), disc, fr, depth, referrer)
             ELSE EnqueueLinks(Tail(links), disc \cup {cu},
                               Append(fr, Item(cu, depth + 1, <<referrer>>)),
                               depth, referrer)

(* Lines 199-217: the error extractLinks throws, "" when it returns the links *)
ExtractError(nav) ==
    IF nav.thrown # "" THEN nav.thrown
    ELSE IF nav.status >= 200 /\ nav.status <= 299 THEN ""
    ELSE IF nav.status = 401 \/ nav.status = 403 THEN "Authentication required"
    ELSE IF nav.status = 404 \/ nav.status = 410 THEN "Page not found"
    ELSE IF nav.status >= 500 THEN "Server error"
    ELSE ""

(* The URLs with a failed extractLinks call so far *)
FailingUrls == {u \in DOMAIN attempts : \E i \in 1..Len(attempts[u]) : attempts[u][i] # ""}

(* The navigations the exploration lets a URL have *)
NavigationsOf(url) ==
    IF url \in FailingUrls \/ Cardinality(FailingUrls) < MaxFailingUrls
    THEN Navigations
    ELSE {nav \in Navigations : nav.thrown = "" /\ nav.status \in {200, 400}}

(* ShouldRetry comparing with <= *)
ShouldRetryOnceMore(retries) == retries <= MAX_RETRIES

(* Line 141 *)
ShouldRetry(retries) == retries < MAX_RETRIES

(* RetriesAfterFailure storing the count it read *)
RetriesNotCounted(retries) == retries

(* Line 144 *)
RetriesAfterFailure(retries) == retries + 1

(* Line 109 *)
VisitedOnSuccess(url) == visitedUrls \cup {url}

(* VisitedOnGiveUp leaving the set as it is *)
VisitedOnGiveUpForgotten(url) == visitedUrls

(* Line 155 *)
VisitedOnGiveUp(url) == visitedUrls \cup {url}

(* UnvisitedUrls without the filter *)
UnvisitedUrlsUnfiltered == discoveredUrls

(* UnvisitedUrls leaving out the URLs that wait for their retry *)
UnvisitedUrlsNeverTried ==
    {url \in discoveredUrls : url \notin visitedUrls /\ url \notin DOMAIN retryCount}

(* Lines 162-164 *)
UnvisitedUrls == {url \in discoveredUrls : url \notin visitedUrls}

(* The robots-disallowed ones among the canonical forms of a page's links *)
DisallowedAmong(hrefs) ==
    {cu \in {canonicalizeUrl(hrefs[i]) : i \in 1..Len(hrefs)} :
        cfg.respectRobotsTxt /\ isDisallowedByRobots(cu)}

(* LoopCondition comparing the page budget with <= *)
LoopConditionOffByOne ==
    /\ Len(frontier) > 0
    /\ Cardinality(visitedUrls) <= cfg.maxPages
    /\ elapsed < cfg.maxTimeMs

(* Line 91 *)
LoopCondition ==
    /\ Len(frontier) > 0
    /\ Cardinality(visitedUrls) < cfg.maxPages
    /\ elapsed < cfg.maxTimeMs

(* The canonical forms of the links of one page *)
CanonicalLinks(hrefs) == {canonicalizeUrl(hrefs[i]) : i \in 1..Len(hrefs)}

(* Requeue putting the retried item at the head of the frontier *)
RequeueAtHead(fr, item) == <<item>> \o fr

(* Line 145: a failed item waits at the tail for its retry *)
Requeue(fr, item) == Append(fr, item)

GetRetries(url) == IF url \in DOMAIN retryCount THEN retryCount[url] ELSE 0

MapSet(m, k, v) == [x \in DOMAIN m \cup {k} |-> IF x = k THEN v ELSE m[x]]
MapDelete(m, k) == [x \in DOMAIN m \ {k} |-> m[x]]

(* The record of extractLinks calls; it stops growing once it shows more   *)
(* calls on a URL than the retry cap allows                                *)
Attempted(url, outcome) ==
    LET before == IF url \in DOMAIN attempts THEN attempts[url] ELSE <<>>
    IN  MapSet(attempts, url,
               IF Len(before) > MAX_RETRIES + 1 THEN before
               ELSE Append(before, outcome))

(* FailedUrl counting the first attempt as a retry *)
FailedUrlCountingAttempts(url, reason) ==
    [url |-> url, reason |-> reason, retryCount |-> MAX_RETRIES + 1]

(* Lines 149-154 *)
FailedUrl(url, reason) ==
    [url |-> url, reason |-> reason, retryCount |-> MAX_RETRIES]

----------------------------------------------------------------------------
(* waitForQuietPage: the steps between its awaits *)

QuietIdle ==
    /\ qpc = "idle"
    /\ options = [timeoutMs |-> 0, maxInflightRequests |-> 0,
                  domQuietWindowMs |-> 0, extraWaitMs |-> 0]
    /\ clock = 0
    /\ start = 0
    /\ deadline = 0
    /\ inflight = 0
    /\ lastMutation = 0
    /\ page = Page(0, 0, 0, FALSE, 0)
    /\ pageBefore = Page(0, 0, 0, FALSE, 0)
    /\ wakeAt = 0
    /\ domQuiet = "none"
    /\ lastPoll = NoPoll
    /\ sleeps = 0
    /\ offCalls = 0
    /\ sinceCall = 0
    /\ swallowedIn = {}

(* Lines 83-88, and the way out: the call returns, or the error goes on *)
Leave(p, how) ==
    /\ page' = AfterFinally(p)
    /\ offCalls' = offCalls + 1
    /\ qpc' = how

(* Lines 75-82: after waitForDomQuiet has returned *)
AfterDomQuiet(p) ==
    IF options.extraWaitMs > 0
    THEN /\ qpc' = "extraWait"
         /\ wakeAt' = clock + options.extraWaitMs
         /\ page' = p
         /\ UNCHANGED offCalls
    ELSE /\ Leave(p, "returned")
         /\ UNCHANGED wakeAt

(* Lines 112-120: the loop of waitForDomQuiet is reached on page p *)
Poll(p) ==
    LET outcome == PollOutcome(clock, deadline, inflight, lastMutation, options)
    IN  /\ lastPoll' = IF clock < deadline
                       THEN [at |-> clock, inflight |-> inflight,
                             domQuietFor |-> clock - lastMutation]
                       ELSE lastPoll
        /\ IF outcome = "sleep"
           THEN /\ qpc' = "sleep"
                /\ wakeAt' = clock + PollInterval
                /\ sleeps' = sleeps + 1
                /\ page' = p
                /\ UNCHANGED <<domQuiet, offCalls>>
           ELSE /\ domQuiet' = outcome
                /\ AfterDomQuiet(p)
                /\ UNCHANGED sleeps

(* A sub-step throws inside the try block of line 56 *)
Throw ==
    /\ Leave(page, "threw")
    /\ UNCHANGED <<wakeAt, domQuiet, lastPoll, sleeps>>

(* The caller opens and navigates a page of its own for every call; the   *)
(* page may carry listeners of others                                      *)
NewPage ==
    /\ qpc \in {"idle", "returned", "threw"}
    /\ \E others \in {0, 1} : page' = Page(others, others, others, FALSE, 0)
    /\ pageBefore' = page'
    /\ options' = [timeoutMs |-> 0, maxInflightRequests |-> 0,
                   domQuietWindowMs |-> 0, extraWaitMs |-> 0]
    /\ clock' = 0
    /\ start' = 0
    /\ inflight' = 0
    /\ deadline' = 0
    /\ lastMutation' = 0
    /\ wakeAt' = 0
    /\ domQuiet' = "none"
    /\ lastPoll' = NoPoll
    /\ sleeps' = 0
    /\ offCalls' = 0
    /\ sinceCall' = 0
    /\ swallowedIn' = {}
    /\ qpc' = "navigated"
    /\ UNCHANGED <<crawlVars, urlVars>>

(* Lines 44-59: the call *)
QuietCall ==
    /\ qpc = "navigated"
    /\ \E opts \in QuietPageOptions : options' = opts
    /\ pageBefore' = page
    /\ page' = AddListeners(page)
    /\ clock' = 0
    /\ start' = clock'
    /\ inflight' = 0
    /\ deadline' = 0
    /\ lastMutation' = 0
    /\ wakeAt' = 0
    /\ domQuiet' = "none"
    /\ lastPoll' = NoPoll
    /\ sleeps' = 0
    /\ offCalls' = 0
    /\ sinceCall' = 0
    /\ swallowedIn' = {}
    /\ qpc' = "loadState"
    /\ UNCHANGED <<crawlVars, urlVars>>

(* Time passes while the call waits; waitForLoadState gives up at its     *)
(* timeout (a timeout of 0 sets none)                                      *)
TickUpTo(latest) ==
    /\ qpc \in {"loadState", "fonts", "expose", "observe", "sleep", "extraWait"}
    /\ clock < latest
    /\ qpc = "loadState" =>
          \/ options.timeoutMs = 0
          \/ clock - start < Min(LoadStateCap, options.timeoutMs)
    /\ clock' = clock + 1
    /\ UNCHANGED <<qpc, options, start, deadline, inflight, lastMutation, page,
                   pageBefore, wakeAt, domQuiet, lastPoll, sleeps, offCalls>>
    /\ UNCHANGED <<sinceCall, swallowedIn, crawlVars, urlVars>>

Tick == TickUpTo(MaxTime)

(* Lines 57-60: waitForLoadState resolves or throws; both go on to line   *)
(* 64; with `record` a swallowed error is kept in swallowedIn              *)
LoadStateStep(record) ==
    /\ qpc = "loadState"
    /\ \E threw \in BOOLEAN :
          IF threw /\ "loadState" \notin InnerCatch
          THEN /\ Throw
               /\ UNCHANGED swallowedIn
          ELSE /\ qpc' = "fonts"
               /\ swallowedIn' = IF record /\ threw
                                 THEN swallowedIn \cup {"loadState"} ELSE swallowedIn
               /\ UNCHANGED <<page, wakeAt, domQuiet, lastPoll, sleeps, offCalls>>
    /\ UNCHANGED <<options, clock, start, deadline, inflight, lastMutation, pageBefore>>
    /\ UNCHANGED <<sinceCall, crawlVars, urlVars>>

LoadStateDone == LoadStateStep(FALSE)

LoadStateRecorded == LoadStateStep(TRUE)

(* Lines 62-74, 90-95: the fonts wait resolves or throws; waitForDomQuiet *)
(* is entered and reads the clock; with `record` a swallowed error is kept *)
(* in swallowedIn                                                          *)
FontsStep(record) ==
    /\ qpc = "fonts"
    /\ \E threw \in BOOLEAN :
          IF threw /\ "fonts" \notin InnerCatch
          THEN /\ Throw
               /\ UNCHANGED <<swallowedIn, deadline, lastMutation>>
          ELSE /\ deadline' = clock + options.timeoutMs
               /\ lastMutation' = clock
               /\ qpc' = "expose"
               /\ swallowedIn' = IF record /\ threw
                                 THEN swallowedIn \cup {"fonts"} ELSE swallowedIn
               /\ UNCHANGED <<page, wakeAt, domQuiet, lastPoll, sleeps, offCalls>>
    /\ UNCHANGED <<options, clock, start, inflight, pageBefore>>
    /\ UNCHANGED <<sinceCall, crawlVars, urlVars>>

FontsDone == FontsStep(FALSE)

FontsRecorded == FontsStep(TRUE)

(* Lines 95-99: exposeFunction resolves or throws *)
ExposeDone ==
    /\ qpc = "expose"
    /\ \/ /\ page' = [page EXCEPT !.exposed = TRUE]
          /\ qpc' = "observe"
          /\ UNCHANGED <<wakeAt, domQuiet, lastPoll, sleeps, offCalls>>
       \/ Throw
    /\ UNCHANGED <<options, clock, start, deadline, inflight, lastMutation, pageBefore>>
    /\ UNCHANGED <<sinceCall, swallowedIn, crawlVars, urlVars>>

(* Lines 99-118: the observer is installed, or evaluate throws *)
ObserveDone ==
    /\ qpc = "observe"
    /\ \/ Poll([page EXCEPT !.observers = @ + 1])
       \/ Throw
    /\ UNCHANGED <<options, clock, start, deadline, inflight, lastMutation, pageBefore>>
    /\ UNCHANGED <<sinceCall, swallowedIn, crawlVars, urlVars>>

(* Lines 118, 112-120: waitForTimeout(100) resolves or throws *)
SleepDone ==
    /\ qpc = "sleep"
    /\ clock >= wakeAt
    /\ \/ Poll(page)
       \/ Throw
    /\ UNCHANGED <<options, clock, start, deadline, inflight, lastMutation, pageBefore>>
    /\ UNCHANGED <<sinceCall, swallowedIn, crawlVars, urlVars>>

(* Lines 81-88: waitForTimeout(extraWaitMs) resolves or throws *)
ExtraWaitDone ==
    /\ qpc = "extraWait"
    /\ clock >= wakeAt
    /\ \/ Leave(page, "returned")
       \/ Leave(page, "threw")
    /\ UNCHANGED <<options, clock, start, deadline, inflight, lastMutation, pageBefore,
                   wakeAt, domQuiet, lastPoll, sleeps>>
    /\ UNCHANGED <<sinceCall, swallowedIn, crawlVars, urlVars>>

(* Line 50; with `record` the request is counted in sinceCall *)
onRequestWith(record) ==
    /\ page.request > pageBefore.request
    /\ inflight < MaxRequests
    /\ sinceCall < MaxRequests
    /\ inflight' = inflight + 1
    /\ sinceCall' = IF record THEN sinceCall + 1 ELSE sinceCall
    /\ UNCHANGED <<qpc, options, clock, start, deadline, lastMutation, page, pageBefore,
                   wakeAt, domQuiet, lastPoll, sleeps, offCalls>>
    /\ UNCHANGED <<swallowedIn, crawlVars, urlVars>>

onRequest == onRequestWith(FALSE)

onRequestCounted == onRequestWith(TRUE)

(* Line 51, for requestfinished and requestfailed: a request ends, one     *)
(* started since line 52 or one that was in flight before; with `record`   *)
(* the former leaves sinceCall                                             *)
onRequestFinishedWith(record) ==
    /\ page.requestfinished > pageBefore.requestfinished
    /\ inflight' = Max(0, inflight - 1)
    /\ IF record
       THEN \E own \in BOOLEAN :
               /\ own => sinceCall > 0
               /\ sinceCall' = IF own THEN sinceCall - 1 ELSE sinceCall
       ELSE UNCHANGED sinceCall
    /\ UNCHANGED <<qpc, options, clock, start, deadline, lastMutation, page, pageBefore,
                   wakeAt, domQuiet, lastPoll, sleeps, offCalls>>
    /\ UNCHANGED <<swallowedIn, crawlVars, urlVars>>

onRequestFinished == onRequestFinishedWith(FALSE)

onRequestFinishedCounted == onRequestFinishedWith(TRUE)

(* Lines 95-105: the observer's callback calls the exposed function *)
markMutation ==
    /\ page.exposed
    /\ page.observers > 0
    /\ lastMutation' = clock
    /\ UNCHANGED <<qpc, options, clock, start, deadline, inflight, page, pageBefore,
                   wakeAt, domQuiet, lastPoll, sleeps, offCalls>>
    /\ UNCHANGED <<sinceCall, swallowedIn, crawlVars, urlVars>>

QuietNext ==
    \/ NewPage
    \/ QuietCall
    \/ Tick
    \/ LoadStateDone
    \/ FontsDone
    \/ ExposeDone
    \/ ObserveDone
    \/ SleepDone
    \/ ExtraWaitDone
    \/ onRequest
    \/ onRequestFinished
    \/ markMutation

----------------------------------------------------------------------------
(* WebCrawler: the steps of crawl() *)

CrawlIdle ==
    /\ pc = "idle"
    /\ startUrl = Garbage
    /\ canonicalStart = Garbage
    /\ cfg = NoCfg
    /\ discoveredUrls = {}
    /\ visitedUrls = {}
    /\ failedUrls = <<>>
    /\ retryCount = EmptyMap
    /\ robotsDisallows = <<>>
    /\ frontier = <<>>
    /\ elapsed = 0
    /\ result = NoResult
    /\ attempts = EmptyMap
    /\ dropped = {}
    /\ seeds = {}
    /\ disallowedLinks = {}
    /\ linksOf = EmptyMap
    /\ timedOutReady = {}
    /\ robotsFetched = ""
    /\ sitemapFetched = ""

Init == CrawlIdle /\ QuietIdle /\ UrlIdle

UrlInit == CrawlIdle /\ QuietIdle /\ UrlGiven

(* Lines 43-56: crawl() is entered (on a fresh crawler, or after an earlier *)
(* crawl has returned) and clears the per-crawl fields                     *)
CrawlEnter ==
    /\ pc \in {"idle", "done", "thrown"}
    /\ discoveredUrls' = {}
    /\ visitedUrls' = {}
    /\ failedUrls' = <<>>
    /\ retryCount' = EmptyMap
    /\ startUrl' = Garbage
    /\ canonicalStart' = Garbage
    /\ cfg' = NoCfg
    /\ frontier' = <<>>
    /\ elapsed' = 0
    /\ result' = NoResult
    /\ attempts' = EmptyMap
    /\ dropped' = {}
    /\ seeds' = {}
    /\ disallowedLinks' = {}
    /\ linksOf' = EmptyMap
    /\ timedOutReady' = {}
    /\ robotsFetched' = ""
    /\ sitemapFetched' = ""
    /\ pc' = "entered"
    /\ UNCHANGED robotsDisallows
    /\ UNCHANGED <<quietVars, urlVars>>

(* Lines 58-69: the arguments are read; the start URL is the first discovery *)
CrawlWith(pageBudgets, timeBudgets) ==
    /\ pc = "entered"
    /\ \E s \in StartUrls, sub \in BOOLEAN, robots \in BOOLEAN,
          pages \in pageBudgets, depth \in DepthBudgets, time \in timeBudgets :
        /\ startUrl' = s
        /\ canonicalStart' = canonicalizeUrl(s)
        /\ cfg' = [includeSubdomains |-> sub, maxPages |-> pages, maxDepth |-> depth,
                   maxTimeMs |-> time, respectRobotsTxt |-> robots]
    /\ discoveredUrls' = discoveredUrls \cup {canonicalStart'}
    /\ elapsed' = 0
    /\ pc' = IF Swallowed(ParseError(startUrl')) = "" THEN "robots" ELSE "thrown"
    /\ UNCHANGED <<visitedUrls, failedUrls, retryCount, robotsDisallows, frontier,
                   result, attempts, dropped, seeds, disallowedLinks, linksOf,
                   robotsFetched, sitemapFetched, timedOutReady>>
    /\ UNCHANGED <<quietVars, urlVars>>

CrawlStart == CrawlWith(PageBudgets, TimeBudgets)

(* crawl() called with page and time budgets that no crawl reaches *)
CrawlStartUnbudgeted == CrawlWith({Unlimited}, {Unlimited})

(* Lines 71-76; with `record` the outcome of the fetch is kept in         *)
(* robotsFetched                                                           *)
RobotsStep(record) ==
    /\ pc = "robots"
    /\ IF cfg.respectRobotsTxt
       THEN \E fetched \in RobotsFetches, now \in Later(elapsed) :
               /\ robotsDisallows' = loadRobots(canonicalStart, fetched, robotsDisallows)
               /\ elapsed' = now
               /\ robotsFetched' = IF record /\ canonicalStart.ok
                                   THEN fetched.outcome ELSE robotsFetched
               /\ pc' = IF Swallowed(Swallowed(FetchError(canonicalStart, fetched))) = ""
                        THEN "sitemap" ELSE "thrown"
       ELSE /\ pc' = "sitemap"
            /\ UNCHANGED <<robotsDisallows, elapsed, robotsFetched>>
    /\ UNCHANGED <<startUrl, canonicalStart, cfg, discoveredUrls, visitedUrls,
                   failedUrls, retryCount, frontier, result, attempts, dropped,
                   seeds, disallowedLinks, linksOf, sitemapFetched, timedOutReady>>
    /\ UNCHANGED <<quietVars, urlVars>>

LoadRobots == RobotsStep(FALSE)

LoadRobotsRecorded == RobotsStep(TRUE)

(* Lines 78-89; with `record` the outcome of the fetch is kept in         *)
(* sitemapFetched                                                          *)
SitemapStep(record) ==
    /\ pc = "sitemap"
    /\ \E fetched \in SitemapFetches, now \in Later(elapsed) :
          LET seeded == SeedFrontier(fetchSitemapUrls(canonicalStart, fetched),
                                     discoveredUrls,
                                     <<Item(canonicalStart, 0, <<>>)>>)
          IN  /\ discoveredUrls' = seeded.disc
              /\ frontier' = seeded.fr
              /\ seeds' = {seeded.fr[i].url : i \in 2..Len(seeded.fr)}
              /\ elapsed' = now
              /\ sitemapFetched' = IF record /\ canonicalStart.ok
                                    THEN fetched.outcome ELSE sitemapFetched
              /\ pc' = IF Swallowed(Swallowed(FetchError(canonicalStart, fetched))) = ""
                        THEN "loop" ELSE "thrown"
    /\ UNCHANGED <<startUrl, canonicalStart, cfg, visitedUrls, failedUrls,
                   retryCount, robotsDisallows, result, attempts, dropped,
                   disallowedLinks, linksOf, robotsFetched, timedOutReady>>
    /\ UNCHANGED <<quietVars, urlVars>>

SeedSitemap == SitemapStep(FALSE)

SeedSitemapRecorded == SitemapStep(TRUE)

(* Lines 91-158: one iteration of the loop; with `record` the links each  *)
(* page gave are kept in linksOf, and the URLs whose navigation threw on a *)
(* ready page in timedOutReady                                             *)
Iteration(record) ==
    /\ pc = "loop"
    /\ LoopCondition
    /\ LET next == Head(frontier)
           currentUrl == next.url
           rest == Tail(frontier)
       IN  IF currentUrl \in visitedUrls
           THEN /\ frontier' = rest
                /\ UNCHANGED <<pc, discoveredUrls, visitedUrls, failedUrls, retryCount,
                               elapsed, attempts, dropped, disallowedLinks, linksOf,
                               timedOutReady>>
           ELSE IF ~PassesGate(next)
           THEN /\ frontier' = rest
                /\ dropped' = dropped \cup {currentUrl}
                /\ UNCHANGED <<pc, discoveredUrls, visitedUrls, failedUrls, retryCount,
                               elapsed, attempts, disallowedLinks, linksOf,
                               timedOutReady>>
           ELSE \E nav \in NavigationsOf(currentUrl), now \in Later(elapsed) :
               \E hrefs \in IF ExtractError(nav) = "" THEN LinkLists ELSE {<<>>} :
               \E error \in {ExtractError(nav)} :
                  /\ elapsed' = now
                  /\ attempts' = Attempted(currentUrl, error)
                  /\ dropped' = dropped
                  /\ timedOutReady' = IF record /\ nav.thrown # "" /\ nav.ready
                                      THEN timedOutReady \cup {currentUrl}
                                      ELSE timedOutReady
                  /\ pc' = IF Swallowed(error) = "" THEN "loop" ELSE "thrown"
                  /\ IF error = ""
                     THEN \E added \in {EnqueueLinks(hrefs, discoveredUrls, rest,
                                                      next.depth, currentUrl)} :
                              /\ visitedUrls' = VisitedOnSuccess(currentUrl)
                              /\ retryCount' = MapDelete(retryCount, currentUrl)
                              /\ discoveredUrls' = added.disc
                              /\ frontier' = added.fr
                              /\ disallowedLinks' =
                                     disallowedLinks \cup DisallowedAmong(hrefs)
                              /\ linksOf' = IF record
                                            THEN MapSet(linksOf, currentUrl,
                                                        CanonicalLinks(hrefs))
                                            ELSE linksOf
                              /\ UNCHANGED failedUrls
                     ELSE IF ShouldRetry(GetRetries(currentUrl))
                     THEN /\ retryCount' = MapSet(retryCount, currentUrl,
                                                  RetriesAfterFailure(GetRetries(currentUrl)))
                          /\ frontier' = Requeue(rest, Item(currentUrl, next.depth,
                                                            next.referrer))
                          /\ UNCHANGED <<discoveredUrls, visitedUrls, failedUrls,
                                         disallowedLinks, linksOf>>
                     ELSE /\ failedUrls' = Append(failedUrls,
                                                  FailedUrl(currentUrl, error))
                          /\ visitedUrls' = VisitedOnGiveUp(currentUrl)
                          /\ frontier' = rest
                          /\ UNCHANGED <<discoveredUrls, retryCount, disallowedLinks,
                                         linksOf>>
    /\ UNCHANGED <<startUrl, canonicalStart, cfg, robotsDisallows, result, seeds,
                   robotsFetched, sitemapFetched>>
    /\ UNCHANGED <<quietVars, urlVars>>

LoopStep == Iteration(FALSE)

LoopStepRecorded == Iteration(TRUE)

(* Lines 160-172: the loop is left and the CrawlResult is returned *)
CrawlReturn ==
    /\ pc = "loop"
    /\ ~LoopCondition
    /\ result' = [discoveredUrls |-> visitedUrls,
                  unvisitedUrls |-> UnvisitedUrls,
                  failedUrls |-> failedUrls]
    /\ pc' = "done"
    /\ UNCHANGED <<startUrl, canonicalStart, cfg, discoveredUrls, visitedUrls,
                   failedUrls, retryCount, robotsDisallows, frontier, elapsed,
                   attempts, dropped, seeds, disallowedLinks, linksOf, robotsFetched,
                   sitemapFetched, timedOutReady>>
    /\ UNCHANGED <<quietVars, urlVars>>

Next == CrawlEnter \/ CrawlStart \/ LoadRobots \/ SeedSitemap \/ LoopStep \/ CrawlReturn

Spec == Init /\ [][Next]_vars

(* The loop runs on: an iteration or the return follows whenever one is due *)
LiveSpec == Spec /\ WF_vars(LoopStep) /\ WF_vars(CrawlReturn)

(* Crawls with unreached page and time budgets; the links of each page and *)
(* the outcomes of the robots.txt and sitemap.xml fetches are kept         *)
NextRecorded ==
    \/ CrawlEnter
    \/ CrawlStartUnbudgeted
    \/ LoadRobotsRecorded
    \/ SeedSitemapRecorded
    \/ LoopStepRecorded
    \/ CrawlReturn

RecordedSpec == Init /\ [][NextRecorded]_vars

(* Calls of waitForQuietPage, each on a page of its own *)
QuietSpec == Init /\ [][QuietNext]_vars

(* canonicalizeUrl applied twice to any of the strings *)
UrlSpec == UrlInit /\ [][UrlNext]_vars

(* Calls of waitForQuietPage with the requests of the page kept count of *)
CountedNext ==
    \/ NewPage
    \/ QuietCall
    \/ Tick
    \/ LoadStateDone
    \/ FontsDone
    \/ ExposeDone
    \/ ObserveDone
    \/ SleepDone
    \/ ExtraWaitDone
    \/ onRequestCounted
    \/ onRequestFinishedCounted
    \/ markMutation

CountedSpec == Init /\ [][CountedNext]_vars

(* Calls of waitForQuietPage with the swallowed errors kept *)
RecordedQuietNext ==
    \/ NewPage
    \/ QuietCall
    \/ Tick
    \/ LoadStateRecorded
    \/ FontsRecorded
    \/ ExposeDone
    \/ ObserveDone
    \/ SleepDone
    \/ ExtraWaitDone
    \/ onRequest
    \/ onRequestFinished
    \/ markMutation

RecordedQuietSpec == Init /\ [][RecordedQuietNext]_vars

(* Time passes and every timer fires when it is due, within the clock      *)
(* readings explored                                                       *)
TickOnTime ==
    /\ qpc \in {"loadState", "fonts"} =>
          clock + 1 + options.timeoutMs + options.extraWaitMs <= MaxLate
    /\ qpc \in {"expose", "observe"} => clock + 1 + options.extraWaitMs <= MaxLate
    /\ qpc \in {"sleep", "extraWait"} => clock < wakeAt
    /\ TickUpTo(MaxLate)

(* Line 59: waitForLoadState gives up at its timeout *)
LoadStateTimedOut ==
    /\ options.timeoutMs # 0
    /\ clock - start >= Min(LoadStateCap, options.timeoutMs)
    /\ LoadStateDone

QuietNextOnTime ==
    \/ NewPage
    \/ QuietCall
    \/ TickOnTime
    \/ LoadStateDone
    \/ FontsDone
    \/ ExposeDone
    \/ ObserveDone
    \/ SleepDone
    \/ ExtraWaitDone
    \/ onRequest
    \/ onRequestFinished
    \/ markMutation

(* What the code and the browser see to: time passes, a wait that has a    *)
(* timeout ends at the timeout, waitForTimeout resolves when it is due,    *)
(* and the two calls that install the mutation hook are answered.  The     *)
(* page decides when, and whether, the document-ready signal and the       *)
(* fonts promise arrive, and which requests and mutations happen.          *)
QuietLiveSpec ==
    /\ Init
    /\ [][QuietNextOnTime]_vars
    /\ WF_vars(TickOnTime)
    /\ WF_vars(LoadStateTimedOut)
    /\ WF_vars(ExposeDone)
    /\ WF_vars(ObserveDone)
    /\ WF_vars(SleepDone)
    /\ WF_vars(ExtraWaitDone)

----------------------------------------------------------------------------
(* Properties of crawl() *)

FailedEntriesOf(url) == {i \in 1..Len(failedUrls) : failedUrls[i].url = url}
FrontierItemsOf(url) == {i \in 1..Len(frontier) : frontier[i].url = url}

(* The errors the design calls transient, and those it calls terminal *)
TransientErrors == {"Timeout", "net::ERR", "Server error"}
TerminalErrors == {"Authentication required", "Page not found"}

(* C1: the visited set is always within the discovered set, and when       *)
(* crawl() has returned, the visited list and unvisitedUrls are disjoint   *)
(* and together are exactly the discovered set.                            *)
C1_VisitedUnvisitedPartition ==
    /\ visitedUrls \subseteq discoveredUrls
    /\ pc = "done" =>
        /\ result.discoveredUrls \cap result.unvisitedUrls = {}
        /\ result.discoveredUrls \cup result.unvisitedUrls = discoveredUrls

C1_Witness ==
    /\ pc = "done"
    /\ result.discoveredUrls # {}
    /\ result.unvisitedUrls # {}
    /\ result.failedUrls # <<>>
    /\ frontier # <<>>

(* C2: every URL with a FailedEntry is in the visited set, and no URL has  *)
(* more than one FailedEntry.                                              *)
C2_FailedWithinVisited ==
    \A i \in 1..Len(failedUrls) :
        /\ failedUrls[i].url \in visitedUrls
        /\ FailedEntriesOf(failedUrls[i].url) = {i}

C2_Witness ==
    /\ Len(failedUrls) >= 1
    /\ \E url \in visitedUrls : FailedEntriesOf(url) = {}

(* C3: no URL is passed to extractLinks more than MAX_RETRIES + 1 times    *)
(* within one crawl.                                                       *)
C3_AttemptsBounded ==
    \A url \in DOMAIN attempts : Len(attempts[url]) <= MAX_RETRIES + 1

C3_Witness ==
    \E url \in DOMAIN attempts :
        /\ Len(attempts[url]) = MAX_RETRIES + 1
        /\ url \in seeds
        /\ url \in visitedUrls

(* C4: a URL whose first extraction fails transiently waits in the         *)
(* frontier exactly once for its retry; when the retry fails too it has    *)
(* exactly one FailedEntry, with retryCount 1, and is visited; when the    *)
(* retry succeeds it is visited and has no FailedEntry.                    *)
C4_TransientRetriedOnce ==
    \A url \in DOMAIN attempts :
        attempts[url][1] \in TransientErrors =>
            IF Len(attempts[url]) = 1
            THEN /\ Cardinality(FrontierItemsOf(url)) = 1
                 /\ url \notin visitedUrls
                 /\ FailedEntriesOf(url) = {}
            ELSE /\ Len(attempts[url]) = 2
                 /\ FrontierItemsOf(url) = {}
                 /\ url \in visitedUrls
                 /\ IF attempts[url][2] = ""
                    THEN FailedEntriesOf(url) = {}
                    ELSE /\ Cardinality(FailedEntriesOf(url)) = 1
                         /\ \A i \in FailedEntriesOf(url) : failedUrls[i].retryCount = 1

C4_Witness ==
    /\ \E url \in DOMAIN attempts :
          /\ attempts[url] = <<"Timeout", "Timeout">>
          /\ FailedEntriesOf(url) # {}
    /\ pc = "done"

(* C5: a URL whose extraction fails with a terminal fetch error (401, 403, *)
(* 404, 410) is attempted once only: it has its FailedEntry, is visited    *)
(* and is not in the frontier after that first attempt.                    *)
C5_TerminalNeverRetried ==
    \A url \in DOMAIN attempts :
        attempts[url][1] \in TerminalErrors =>
            /\ Len(attempts[url]) = 1
            /\ FrontierItemsOf(url) = {}
            /\ url \in visitedUrls
            /\ FailedEntriesOf(url) # {}

(* The extractLinks calls a URL may still get *)
AttemptsLeft(url) == MAX_RETRIES + 1 - GetRetries(url)

RECURSIVE FrontierWork(_)
FrontierWork(fr) ==
    IF fr = <<>> THEN 0 ELSE AttemptsLeft(Head(fr).url) + FrontierWork(Tail(fr))

(* The work the loop can still have: the attempts left to the frontier     *)
(* items, and a full allowance and one more for every link not yet found   *)
LinkUrls == {canonicalizeUrl(url) : url \in LinkPool}

WorkLeft ==
    FrontierWork(frontier) + (MAX_RETRIES + 2) * Cardinality(LinkUrls \ discoveredUrls)

(* C6: the loop of crawl() is left and the CrawlResult returned, whatever  *)
(* the links and the failures, also with unlimited page and time budgets:  *)
(* a crawl in its loop reaches its return, and every iteration uses up     *)
(* some of the finite work left, so no iteration can repeat for ever.      *)
C6_LoopTerminates ==
    /\ (pc = "loop") ~> (pc = "done")
    /\ [][(pc = "loop" /\ pc' = "loop") => WorkLeft' < WorkLeft]_vars
    /\ [](WorkLeft >= 0)

C6_Witness ==
    /\ pc = "done"
    /\ cfg.maxPages = Unlimited
    /\ cfg.maxTimeMs = Unlimited
    /\ \E url \in DOMAIN attempts :
          /\ Len(attempts[url]) = 2
          /\ attempts[url][1] # ""
          /\ attempts[url][2] # ""

(* C7: the visited set never holds more than maxPages URLs, and no         *)
(* extractLinks call starts while it holds maxPages.                       *)
C7_PageBudgetRespected ==
    [][/\ Cardinality(visitedUrls') <= cfg'.maxPages
       /\ (pc = "loop" /\ attempts' # attempts) =>
              Cardinality(visitedUrls) < cfg.maxPages]_vars

C7_Witness ==
    /\ pc = "done"
    /\ cfg.maxPages = 1
    /\ Cardinality(visitedUrls) = 1
    /\ frontier # <<>>
    /\ \E url \in DOMAIN attempts : Len(attempts[url]) = 2

(* C8: every visited URL is in scope of the canonical start URL: the same  *)
(* hostname without includeSubdomains, the same heuristic registrable      *)
(* domain with it.                                                         *)
C8_VisitedInScope ==
    \A url \in visitedUrls :
        /\ url.ok
        /\ canonicalStart.ok
        /\ IF cfg.includeSubdomains
           THEN getBaseDomain(url.host) = getBaseDomain(canonicalStart.host)
           ELSE url.host = canonicalStart.host

C8_Witness ==
    /\ cfg.includeSubdomains
    /\ canonicalizeUrl(Sub) \in visitedUrls
    /\ canonicalizeUrl(RawA) \in visitedUrls
    /\ canonicalizeUrl(Other) \in dropped

(* C9: a frontier item that fails the pop-time gate is dropped without an  *)
(* extractLinks call: its URL is not visited, has no FailedEntry and no    *)
(* retry counter, and is not in the frontier again.                        *)
C9_GateDropIsSilent ==
    \A url \in dropped :
        /\ url \notin DOMAIN attempts
        /\ url \notin visitedUrls
        /\ FailedEntriesOf(url) = {}
        /\ url \notin DOMAIN retryCount
        /\ FrontierItemsOf(url) = {}

C9_Witness ==
    /\ \E url \in dropped :
          InScope(url) /\ cfg.respectRobotsTxt /\ isDisallowedByRobots(url)
    /\ \E url \in dropped :
          InScope(url) /\ ~isDisallowedByRobots(url) /\ url \notin seeds
    /\ visitedUrls # {}

(* C10 as claimed: with respectRobotsTxt, an extracted link that           *)
(* robots.txt disallows is in neither the discovered set nor the frontier, *)
(* hence in none of the three result lists.                                *)
C10_DisallowedLinkNowhere ==
    cfg.respectRobotsTxt =>
        \A url \in disallowedLinks :
            /\ url \notin discoveredUrls
            /\ FrontierItemsOf(url) = {}

(* C10 amended: with respectRobotsTxt, an extracted link that robots.txt   *)
(* disallows is in the discovered set only when it is the start URL or a   *)
(* sitemap seed; link extraction never adds it, and it is then neither     *)
(* visited nor failed.                                                     *)
C10_DisallowedLinkOnlyAsSeed ==
    cfg.respectRobotsTxt =>
        \A url \in disallowedLinks :
            /\ url \in discoveredUrls => url \in seeds \cup {canonicalStart}
            /\ \A i \in FrontierItemsOf(url) : frontier[i].depth <= 1
            /\ url \notin visitedUrls
            /\ FailedEntriesOf(url) = {}

C10_Witness ==
    /\ pc = "done"
    /\ cfg.respectRobotsTxt
    /\ \E url \in disallowedLinks : url \notin discoveredUrls
    /\ Cardinality(visitedUrls) >= 2

(* The URLs the pop-time gate dropped for their depth alone *)
DroppedForDepth ==
    {url \in dropped : InScope(url) /\ ~(cfg.respectRobotsTxt /\ isDisallowedByRobots(url))}

(* The URLs of the frontier items deeper than maxDepth *)
TooDeep == {frontier[i].url : i \in {j \in 1..Len(frontier) : frontier[j].depth > cfg.maxDepth}}

Unbudgeted == cfg.maxPages = Unlimited /\ cfg.maxTimeMs = Unlimited

IsPrefix(s, t) == Len(s) <= Len(t) /\ SubSeq(t, 1, Len(s)) = s

(* The URLs whose record of extractLinks calls the step extends *)
AttemptedNow ==
    {url \in DOMAIN attempts' : url \notin DOMAIN attempts \/ attempts'[url] # attempts[url]}

(* C12: with unlimited page and time budgets the frontier is a strict      *)
(* FIFO: the URL an iteration attempts is the one at the head, and every   *)
(* item the iteration adds (new links, a retry) goes behind all the items  *)
(* already waiting, so URLs get their first attempt in the order they      *)
(* entered the frontier, a URL before every URL discovered after it;       *)
(* while no attempt has failed, no item waits behind a deeper one and no   *)
(* item that waits or is added is shallower than the URL just attempted.   *)
C12_FifoOrder ==
    /\ [][(pc = "loop" /\ pc' = "loop" /\ Unbudgeted) =>
              /\ IsPrefix(Tail(frontier), frontier')
              /\ AttemptedNow \subseteq {Head(frontier).url}
              /\ (AttemptedNow # {} /\ FailingUrls' = {}) =>
                     \A i \in 1..Len(frontier') :
                         frontier'[i].depth >= Head(frontier).depth]_vars
    /\ []((Unbudgeted /\ FailingUrls = {}) =>
              \A i, j \in 1..Len(frontier) :
                  i < j => frontier[i].depth <= frontier[j].depth)

C12_Witness ==
    /\ pc = "done"
    /\ Unbudgeted
    /\ seeds # {}
    /\ Cardinality(visitedUrls) >= 3
    /\ \E url \in DOMAIN attempts : attempts[url] = <<"Timeout", "">>
    /\ canonicalStart \in DOMAIN attempts /\ attempts[canonicalStart] = <<"">>

(* The URLs within link distance k of the start URL, by the links the      *)
(* pages of this crawl gave                                                *)
RECURSIVE WithinDistance(_)
WithinDistance(k) ==
    IF k = 0 THEN {canonicalStart}
    ELSE LET near == WithinDistance(k - 1)
         IN  near \cup UNION {linksOf[url] : url \in near \cap DOMAIN linksOf}

FailedAttemptsOf(url) == {i \in 1..Len(attempts[url]) : attempts[url][i] # ""}

(* Every page loaded within its retry allowance *)
AllLoaded == \A url \in DOMAIN attempts : Cardinality(FailedAttemptsOf(url)) <= 1

(* C13: with page and time budgets out of reach and at most one failed     *)
(* attempt per URL, when crawl() has returned every in-scope,              *)
(* robots-allowed URL within link distance maxDepth of the start URL is in *)
(* the visited list, and failedUrls is empty.                              *)
C13_CoverageWithinBudgets ==
    (pc = "done" /\ Unbudgeted /\ AllLoaded) =>
        /\ \A url \in WithinDistance(cfg.maxDepth) :
               (InScope(url) /\ ~(cfg.respectRobotsTxt /\ isDisallowedByRobots(url))) =>
                   url \in result.discoveredUrls
        /\ result.failedUrls = <<>>

(* C14: at the start of every crawl() the discovered set, the visited set, *)
(* the failed list, the retry counters and the robots rules carry nothing  *)
(* over from an earlier crawl, and a crawl whose robots.txt fetch throws   *)
(* or answers with a non-OK status runs with no Disallow rule.             *)
C14_ResetPerInvocation ==
    /\ pc = "entered" =>
          /\ discoveredUrls = {}
          /\ visitedUrls = {}
          /\ failedUrls = <<>>
          /\ retryCount = EmptyMap
          /\ robotsDisallows = <<>>
    /\ (pc \in {"sitemap", "loop", "done"} /\ robotsFetched \in {"throws", "notOk"}) =>
          robotsDisallows = <<>>

(* C15: crawl() never ends with an error: a robots.txt or sitemap.xml      *)
(* fetch that fails, a start URL that does not parse and an extractLinks   *)
(* call that throws all end in their handlers, and what crawl() returns    *)
(* is a CrawlResult with its three lists.                                  *)
C15_NeverThrows ==
    /\ pc # "thrown"
    /\ pc = "done" =>
          /\ DOMAIN result = {"discoveredUrls", "unvisitedUrls", "failedUrls"}
          /\ result.discoveredUrls = visitedUrls
          /\ result.unvisitedUrls = discoveredUrls \ visitedUrls
          /\ result.failedUrls = failedUrls
    /\ (pc = "done" /\ ~startUrl.ok) =>
          result = [discoveredUrls |-> {}, unvisitedUrls |-> {startUrl},
                    failedUrls |-> <<>>]

C15_Witness ==
    /\ pc = "done"
    /\ robotsFetched = "throws"
    /\ sitemapFetched = "throws"
    /\ \E url \in DOMAIN attempts : attempts[url] = <<"Timeout", "Timeout">>
    /\ Len(result.failedUrls) = 1
    /\ result.discoveredUrls # {}
    /\ result.unvisitedUrls # {}

(* The URLs of the items waiting in the frontier *)
FrontierUrls == {frontier[i].url : i \in 1..Len(frontier)}

(* C22: sameHostname and sameBaseDomain answer false, throwing nothing,    *)
(* whenever one of their arguments does not parse as a URL (also when both *)
(* arguments are the same string), and crawl() drops a URL that does not   *)
(* parse at the gate: it is never loaded, never visited, gets no failed    *)
(* entry, and crawl() does not end with an error.                          *)
C22_ScopeFailsClosed ==
    /\ \A a, b \in discoveredUrls :
           (~a.ok \/ ~b.ok) => ~sameHostname(a, b) /\ ~sameBaseDomain(a, b)
    /\ \A url \in discoveredUrls :
           ~url.ok =>
               /\ url \notin DOMAIN attempts
               /\ url \notin visitedUrls
               /\ FailedEntriesOf(url) = {}
               /\ (pc \in {"loop", "done"} /\ url \notin FrontierUrls) => url \in dropped
    /\ pc # "thrown"

C22_Witness ==
    /\ pc = "done"
    /\ ~startUrl.ok
    /\ cfg.maxPages > 0
    /\ dropped = {startUrl}
    /\ result.unvisitedUrls = {startUrl}
    /\ result.discoveredUrls = {}

(* The loop has ended with items left: the page or the time budget is used up *)
BudgetExhausted ==
    /\ Len(frontier) > 0
    /\ \/ Cardinality(visitedUrls) >= cfg.maxPages
       \/ elapsed >= cfg.maxTimeMs

(* C26: when crawl() returns because the page or the time budget is used   *)
(* up, every URL still in the frontier, one waiting for its retry          *)
(* included, is in unvisitedUrls, not in the visited list, and has no      *)
(* failed entry; the return adds nothing to failedUrls, whose entries are  *)
(* all of URLs that failed MAX_RETRIES + 1 times.                          *)
C26_BudgetExhaustionIsNotFailure ==
    /\ []((pc = "done" /\ BudgetExhausted) =>
              /\ \A url \in FrontierUrls :
                     /\ url \in result.unvisitedUrls
                     /\ url \notin result.discoveredUrls
                     /\ \A i \in 1..Len(result.failedUrls) :
                            result.failedUrls[i].url # url
              /\ \A i \in 1..Len(result.failedUrls) :
                     LET tries == attempts[result.failedUrls[i].url]
                     IN  /\ Len(tries) = MAX_RETRIES + 1
                         /\ \A k \in 1..Len(tries) : tries[k] # "")
    /\ [][(pc = "loop" /\ pc' = "done") =>
              /\ failedUrls' = failedUrls
              /\ result'.failedUrls = failedUrls]_vars

C26_Witness ==
    /\ pc = "done"
    /\ BudgetExhausted
    /\ \E i \in 1..Len(frontier) :
           /\ GetRetries(frontier[i].url) = 1
           /\ frontier[i].url \in result.unvisitedUrls
    /\ \E i \in 1..Len(frontier) : frontier[i].url \notin DOMAIN attempts
    /\ Len(result.failedUrls) = 0

(* C28: a navigation that times out but leaves the page ready (readyState  *)
(* interactive or complete, or a title) counts as a success: the links of  *)
(* the page are extracted, and the URL is visited without a retry and      *)
(* without a failed entry.                                                 *)
C28_TimedOutButReadyIsSuccess ==
    \A url \in timedOutReady :
        /\ url \in visitedUrls
        /\ url \in DOMAIN linksOf
        /\ GetRetries(url) = 0
        /\ FailedEntriesOf(url) = {}

(* C29: the frontier never holds two items of one URL, nor an item of a    *)
(* visited URL; so the item popped is never of a visited URL (the discard  *)
(* of lines 95-97 is never taken) and a visited URL, loaded or given up,   *)
(* is not attempted again.                                                 *)
C29_FrontierHoldsEachUrlOnce ==
    /\ [](\A i, j \in 1..Len(frontier) :
              /\ (i # j => frontier[i].url # frontier[j].url)
              /\ frontier[i].url \notin visitedUrls)
    /\ [][(pc = "loop" /\ pc' = "loop") => Head(frontier).url \notin visitedUrls]_vars
    /\ [][pc = "loop" =>
              \A url \in visitedUrls :
                  /\ url \in visitedUrls'
                  /\ attempts'[url] = attempts[url]]_vars

C29_Witness ==
    /\ pc = "loop"
    /\ Len(failedUrls) = 1
    /\ Cardinality(visitedUrls) >= 2
    /\ Len(frontier) >= 1
    /\ seeds # {}

(* In scope of the start URL and, when robots.txt is respected, not        *)
(* disallowed by its rules                                                 *)
Admissible(url) ==
    /\ InScope(url)
    /\ ~(cfg.respectRobotsTxt /\ isDisallowedByRobots(url))

(* C30 as stated: every URL in the discovered set, and so every URL in    *)
(* the visited list, unvisitedUrls or failedUrls, is in scope and not      *)
(* robots-disallowed, whether it is the start URL, a sitemap seed or an    *)
(* extracted link.                                                         *)
C30_DiscoveredAllAdmissible ==
    /\ \A url \in discoveredUrls : Admissible(url)
    /\ pc = "done" =>
          /\ \A url \in result.discoveredUrls \cup result.unvisitedUrls : Admissible(url)
          /\ \A i \in 1..Len(result.failedUrls) : Admissible(result.failedUrls[i].url)

(* C30, amended: every URL that joined the discovered set as an extracted  *)
(* link, and every URL in the visited list or in failedUrls, is in scope   *)
(* and not robots-disallowed; the start URL and the sitemap seeds join the *)
(* discovered set untested, and one that is out of scope or disallowed is  *)
(* reported in unvisitedUrls only.                                         *)
C30_LinksAndVisitedAdmissible ==
    /\ \A url \in discoveredUrls \ (seeds \cup {canonicalStart}) : Admissible(url)
    /\ \A url \in visitedUrls : Admissible(url)
    /\ \A i \in 1..Len(failedUrls) : Admissible(failedUrls[i].url)
    /\ pc = "done" =>
          /\ \A url \in result.discoveredUrls : Admissible(url)
          /\ \A i \in 1..Len(result.failedUrls) : Admissible(result.failedUrls[i].url)
          /\ \A url \in discoveredUrls :
                 ~Admissible(url) =>
                     /\ url \in seeds \cup {canonicalStart}
                     /\ url \in result.unvisitedUrls

C30_Witness ==
    /\ pc = "done"
    /\ cfg.respectRobotsTxt
    /\ Len(robotsDisallows) > 0
    /\ \E url \in seeds : ~InScope(url) /\ url \in result.unvisitedUrls
    /\ \E url \in result.discoveredUrls : url \notin seeds \cup {canonicalStart}
    /\ Len(result.failedUrls) = 1

----------------------------------------------------------------------------
(* Properties of waitForQuietPage *)

(* The positions of a call that has not ended *)
QuietWaiting == {"loadState", "fonts", "expose", "observe", "sleep", "extraWait"}

(* The call has ended: it returned, or an error of a sub-step went on *)
QuietEnded == qpc \in {"returned", "threw"}

ListenersOf(p) == <<p.request, p.requestfinished, p.requestfailed>>

(* C16: waitForQuietPage takes its three network listeners off exactly     *)
(* once on every way out (quiet reached, deadline passed, a sub-step       *)
(* threw): while the call waits the page has one listener more per event,  *)
(* and when it has ended the listener counts are those of before the call. *)
C16_ListenersReleased ==
    /\ qpc \in QuietWaiting =>
          /\ ListenersOf(page) = ListenersOf(AddListeners(pageBefore))
          /\ offCalls = 0
    /\ QuietEnded =>
          /\ ListenersOf(page) = ListenersOf(pageBefore)
          /\ offCalls = 1

C16_Witness ==
    /\ qpc = "threw"
    /\ domQuiet = "none"
    /\ sleeps >= 1
    /\ inflight >= 1
    /\ ListenersOf(pageBefore) = <<1, 1, 1>>
    /\ ListenersOf(page) = <<1, 1, 1>>

(* C17: the mutation hook (the exposed __qa_markMutation and the           *)
(* MutationObserver) is on the page before the document-ready wait, and is *)
(* taken off on every way out: when the call has ended no hook it          *)
(* installed is left on the page.                                          *)
C17_MutationHookReleased ==
    /\ qpc \in QuietWaiting =>
          /\ page.exposed
          /\ page.observers = pageBefore.observers + 1
    /\ QuietEnded =>
          /\ ~page.exposed
          /\ page.observers = pageBefore.observers

(* C18: the deadline is fixed when waitForQuietPage is called: it is the   *)
(* call time + timeoutMs, and no pass through the loop body reads the      *)
(* quiescence condition at or after that instant.                          *)
C18_DeadlineFromCall ==
    /\ qpc \in {"expose", "observe", "sleep", "extraWait", "returned", "threw"} =>
          deadline = start + options.timeoutMs
    /\ lastPoll # NoPoll => lastPoll.at < start + options.timeoutMs

(* C19: the loop of waitForDomQuiet returns true only from a pass, before  *)
(* the deadline, at which the in-flight count is <= maxInflightRequests    *)
(* and the time since the last mutation is >= domQuietWindowMs; it         *)
(* returns false, throwing nothing, once the deadline has passed and the   *)
(* passes before were not quiet; with timeoutMs = 0 it returns false       *)
(* without a single waitForTimeout(100).                                   *)
C19_QuietOnlyWhenBothHold ==
    /\ [](domQuiet = "true" =>
              /\ lastPoll.inflight <= options.maxInflightRequests
              /\ lastPoll.domQuietFor >= options.domQuietWindowMs
              /\ lastPoll.at < deadline)
    /\ [](domQuiet = "false" =>
              /\ clock >= deadline
              /\ sleeps > 0 =>
                    \/ lastPoll.inflight > options.maxInflightRequests
                    \/ lastPoll.domQuietFor < options.domQuietWindowMs)
    /\ [][(domQuiet = "none" /\ domQuiet' = "false") =>
              qpc' \in {"extraWait", "returned"}]_vars
    /\ [](options.timeoutMs = 0 =>
              /\ sleeps = 0
              /\ qpc # "sleep"
              /\ domQuiet # "true")

C19_Witness ==
    /\ qpc = "returned"
    /\ domQuiet = "true"
    /\ sleeps >= 2
    /\ options.maxInflightRequests = 1
    /\ lastPoll.inflight = 1
    /\ options.domQuietWindowMs = 2
    /\ lastPoll.domQuietFor = 2
    /\ lastPoll.at - lastPoll.domQuietFor > deadline - options.timeoutMs

(* C23: the settle delay waitForTimeout(extraWaitMs) is made only when the *)
(* loop of waitForDomQuiet returned true; when the loop returned false at  *)
(* the deadline, waitForQuietPage returns without the settle delay.        *)
C23_SettleOnlyWhenQuiet ==
    qpc = "extraWait" => domQuiet = "true"

(* C24: every wait of waitForQuietPage is bounded, so every call ends,     *)
(* whatever the page does: also when the document-ready signal never       *)
(* arrives, when the fonts promise never settles, and when mutations and   *)
(* requests never stop.                                                    *)
C24_EveryCallEnds ==
    (qpc = "loadState") ~> QuietEnded

(* C25: while waitForQuietPage is subscribed, its in-flight counter is the  *)
(* number of requests that started since the subscription and have not     *)
(* finished or failed, in every order of the request, requestfinished and  *)
(* requestfailed events, those of requests started before the subscription *)
(* included.                                                               *)
C25_InflightCountsOwnRequests ==
    qpc \in QuietWaiting => inflight = sinceCall

(* C27: an error of the document-ready wait or of the fonts wait ends in   *)
(* its catch block and the call goes on to the next phase; the call ends   *)
(* with an error only from the installation of the mutation hook, the      *)
(* polling loop or the settle delay; and a call that returns has installed *)
(* the mutation hook and run the loop of waitForDomQuiet.                  *)
C27_EarlyFailuresSwallowed ==
    /\ [][(qpc \in {"loadState", "fonts"}) => qpc' # "threw"]_vars
    /\ [][(swallowedIn' # swallowedIn /\ swallowedIn' # {}) =>
              /\ qpc \in {"loadState", "fonts"}
              /\ qpc' = IF qpc = "loadState" THEN "fonts" ELSE "expose"]_vars
    /\ [][(qpc' = "threw" /\ qpc # "threw") =>
              qpc \in {"expose", "observe", "sleep", "extraWait"}]_vars
    /\ [](qpc = "returned" =>
              /\ page.exposed
              /\ page.observers = pageBefore.observers + 1
              /\ domQuiet \in {"true", "false"})

C27_Witness ==
    /\ qpc = "returned"
    /\ swallowedIn = {"loadState", "fonts"}
    /\ page.exposed
    /\ page.observers = pageBefore.observers + 1
    /\ domQuiet = "true"
    /\ sleeps >= 1

----------------------------------------------------------------------------
(* Properties of canonicalizeUrl *)

(* C20: canonicalizeUrl is total and idempotent: a string that does not    *)
(* parse as a URL comes back unchanged, and applying the function to its   *)
(* own result changes nothing, repeated slashes in the middle or at the    *)
(* end of the path included.                                               *)
C20_CanonicalizeIdempotent ==
    /\ (upc >= 1 /\ ~urlInput.ok) => urlOnce = urlInput
    /\ upc = 2 => urlTwice = urlOnce

(* CanonicalURL: what the design asks of a canonical string *)
IsCanonicalURL(u) ==
    /\ u.scheme = ToLowerCase(u.scheme)
    /\ u.host = LowerAll(u.host)
    /\ u.port # DefaultPort(u.scheme)
    /\ u.hash = ""
    /\ \A i \in 1..Len(u.query) : u.query[i] \notin TRACKING_PARAMS
    /\ \A i, j \in 1..Len(u.query) : i < j => KeyRank(u.query[i]) <= KeyRank(u.query[j])
    /\ ~(Len(u.path) >= 2 /\ u.path[1] = "/" /\ u.path[2] = "/")
    /\ (u.path[Len(u.path)] = "/" => u.path = <<"/">>)

(* C21: for every string that parses as a URL, canonicalizeUrl gives a     *)
(* CanonicalURL: scheme and host in lower case, no explicit default port,  *)
(* no fragment, no tracking key in the query, the remaining keys sorted,   *)
(* no repeated leading slashes in the path and no trailing slash unless    *)
(* the path is "/".                                                        *)
C21_CanonicalForm ==
    (upc >= 1 /\ urlInput.ok) => IsCanonicalURL(urlOnce)

====
